---- MODULE Spec2Model ----
(***************************************************************************)
(* Model of the utils package: the Reminder store, the TaskScheduler and   *)
(* schedule_daily (schedulers.py), the timezone helpers, the date helpers  *)
(* and the DateFormatter.                                                  *)
(*                                                                         *)
(* Instants are integers counting clock ticks of absolute (UTC) time; an   *)
(* Arrow value compares by its absolute moment, so a record's instant is   *)
(* that integer.  A timezone is a fixed offset from UTC (the zone database *)
(* with its daylight-saving transitions belongs to the date/time library). *)
(* A Python list of dictionaries is a sequence of records; a list of       *)
(* references to stored dictionaries (the value check_due, list_active,    *)
(* list_tasks and get_next_task return) is a sequence of positions in the  *)
(* store, so that a later mutation of the stored dictionary is seen        *)
(* through the returned reference as it is in Python.                      *)
(***************************************************************************)
EXTENDS Integers, Sequences, FiniteSets, TLC

(* ------------------------------ bounds --------------------------------- *)

\* Clock resolution: ticks per second (Arrow keeps sub-second time).
TicksPerSecond == 2

\* Most reminders the store holds in a checked run.
MaxReminders == 2

\* The clock of the Reminder runs stops advancing this many days after Epoch.
MaxDays == 1

(* --------------------------- calendar units ---------------------------- *)

Second == TicksPerSecond
Minute == 60 * Second
Hour == 60 * Minute
Day == 24 * Hour
Week == 7 * Day

\* The first instant of the runs: midnight UTC of a Monday, one week after
\* the origin of the tick count.
Epoch == Week

(* ------------------------------- state --------------------------------- *)

VARIABLES
    now,        \* the clock arrow.utcnow() / arrow.now(tz) reads
    op,         \* the function or method called last
    arg,        \* the arguments of that call: a Reminder title, or a record
                \* of named arguments ("" when the model keeps none)
    ret,        \* what that call returned
    reminders,  \* Reminder.reminders
    added,      \* history: the arguments of every add call, in call order
    fired,      \* history: per non-recurring record, the number of check_due
                \* calls that have returned it
    runStart,   \* history: per record, its remind_at when the current run of
                \* consecutive check_due calls began
    streak,     \* history: per record with a recognised recurrence, the number
                \* of calls of the current run that have returned it
    tasks,      \* TaskScheduler.tasks
    lastNext,   \* history: what get_next_task has been returning since the
                \* last task was added, and the clock at the first such call
    templates,  \* DateFormatter.templates
    latest,     \* history: per name add_template was called with, the pattern
                \* of the most recent such call
    ids         \* history: what the generate_unique_id calls returned, in call
                \* order

remVars == <<reminders, added, fired, runStart, streak>>
schedVars == <<tasks, lastNext>>
fmtVars == <<templates, latest>>
stampVars == <<ids>>
vars == <<now, op, arg, ret, remVars, schedVars, fmtVars, stampVars>>

\* No get_next_task call since the last task was added.
NoCall == [called |-> FALSE, task |-> 0, since |-> 0]

\* Python's None.
None == "None"

Titles == {"a", "b"}

\* What add is called with, besides the title: recurring, interval, and
\* remind_at as its distance from the clock at the call.
OverdueOnce == <<FALSE, None, -(Day \div 2)>>
OverdueDaily == <<TRUE, "daily", -(Day + Day \div 2)>>

\* The default (non-recurring) reminder, overdue and not yet due (it falls
\* due exactly on the clock one step later); a daily and a weekly reminder
\* overdue by more than one interval; a recurring reminder without
\* interval; one with an interval check_due does not recognise.
Timings ==
    { OverdueOnce,
      <<FALSE, None, Day>>,
      OverdueDaily,
      <<TRUE, "weekly", -(Week + Day \div 2)>>,
      <<TRUE, None, -(Day \div 2)>>,
      <<TRUE, "monthly", Day \div 2>> }

\* The add calls of the runs: <<title, <<recurring, interval, distance>>>>.
AddInputs == ({"a"} \X Timings) \cup ({"b"} \X {OverdueOnce, OverdueDaily})

\* How far the clock moves between two calls.
ClockSteps == { Day }

Indices(s) == 1..Len(s)

Range(s) == { s[k] : k \in Indices(s) }

Zeros(s) == [i \in Indices(s) |-> 0]

(* ------------------------------ Reminder ------------------------------- *)

\* Arrow.shift(days=n) / shift(weeks=n) on a fixed-offset instant.
Shift(t, delta) == t + delta

NewReminder(title, remind_at, recurring, interval, t) ==
    [ title |-> title, remind_at |-> remind_at, recurring |-> recurring,
      interval |-> interval, created_at |-> t, active |-> TRUE ]

\* A store that puts the new record first.
AppendReminderFirst(rs, r) == <<r>> \o rs

\* self.reminders.append(reminder)
AppendReminder(rs, r) == Append(rs, r)

\* A check that forgets the active flag.
IsDueAnyState(r, t) == r.remind_at <= t

\* A check that takes the boundary remind_at = now as not yet due.
IsDueStrict(r, t) == r.active /\ r.remind_at < t

\* The condition of check_due's loop body.
IsDue(r, t) == r.active /\ r.remind_at <= t

\* A check_due that catches a daily reminder up by two days at once.
FireCatchUp(r) ==
    IF ~r.recurring
    THEN [r EXCEPT !.active = FALSE]
    ELSE IF r.interval = "daily"
         THEN [r EXCEPT !.remind_at = Shift(@, 2 * Day)]
         ELSE IF r.interval = "weekly"
              THEN [r EXCEPT !.remind_at = Shift(@, Week)]
              ELSE r

\* What check_due does to a record it has appended to `due`.
Fire(r) ==
    IF ~r.recurring
    THEN [r EXCEPT !.active = FALSE]
    ELSE IF r.interval = "daily"
         THEN [r EXCEPT !.remind_at = Shift(@, Day)]
         ELSE IF r.interval = "weekly"
              THEN [r EXCEPT !.remind_at = Shift(@, Week)]
              ELSE r

\* A check_due that also moves on the active recurring records that are
\* not due, without returning them.
RECURSIVE CheckDueLoopShiftAll(_, _, _, _)
CheckDueLoopShiftAll(rs, i, due, t) ==
    IF i > Len(rs)
    THEN [reminders |-> rs, due |-> due]
    ELSE IF IsDue(rs[i], t)
         THEN CheckDueLoopShiftAll([rs EXCEPT ![i] = Fire(@)], i + 1,
                                   Append(due, i), t)
         ELSE IF rs[i].active /\ rs[i].recurring
              THEN CheckDueLoopShiftAll([rs EXCEPT ![i] = Fire(@)], i + 1, due, t)
              ELSE CheckDueLoopShiftAll(rs, i + 1, due, t)

\* check_due's loop from position i on: the store and the due list it ends with.
RECURSIVE CheckDueLoop(_, _, _, _)
CheckDueLoop(rs, i, due, t) ==
    IF i > Len(rs)
    THEN [reminders |-> rs, due |-> due]
    ELSE IF IsDue(rs[i], t)
         THEN CheckDueLoop([rs EXCEPT ![i] = Fire(@)], i + 1, Append(due, i), t)
         ELSE CheckDueLoop(rs, i + 1, due, t)

\* A cancel that matches by title alone.
CancelMatchesTitle(r, title) == r.title = title

\* The condition of cancel's loop body.
CancelMatches(r, title) == r.title = title /\ r.active

\* A cancel that deactivates every active record with the title.
CancelEvery(rs, i, title) ==
    [ reminders |->
        [j \in Indices(rs) |->
            IF j >= i /\ CancelMatches(rs[j], title)
            THEN [rs[j] EXCEPT !.active = FALSE] ELSE rs[j]],
      found |-> \E j \in Indices(rs) : j >= i /\ CancelMatches(rs[j], title) ]

\* cancel's loop from position i on: the store and the value it returns.
RECURSIVE CancelLoop(_, _, _)
CancelLoop(rs, i, title) ==
    IF i > Len(rs)
    THEN [reminders |-> rs, found |-> FALSE]
    ELSE IF CancelMatches(rs[i], title)
         THEN [reminders |-> [rs EXCEPT ![i].active = FALSE], found |-> TRUE]
         ELSE CancelLoop(rs, i + 1, title)

\* The list comprehension of list_active, from position i on.
RECURSIVE ActiveFrom(_, _)
ActiveFrom(rs, i) ==
    IF i > Len(rs)
    THEN <<>>
    ELSE IF rs[i].active
         THEN <<i>> \o ActiveFrom(rs, i + 1)
         ELSE ActiveFrom(rs, i + 1)

\* A list_active that returns the whole store.
ListAll(rs) == [i \in Indices(rs) |-> i]

ListActive(rs) == ActiveFrom(rs, 1)

Init ==
    /\ now = Epoch
    /\ reminders = <<>>
    /\ op = "init"
    /\ arg = ""
    /\ ret = None
    /\ added = <<>>
    /\ fired = <<>>
    /\ runStart = <<>>
    /\ streak = <<>>
    /\ tasks = <<>>
    /\ lastNext = NoCall
    /\ templates = <<>>
    /\ latest = <<>>
    /\ ids = <<>>

\* Time passes between two calls.
Tick ==
    /\ \E d \in ClockSteps :
          /\ now + d <= Epoch + MaxDays * Day
          /\ now' = now + d
    /\ op' = "tick"
    /\ arg' = ""
    /\ ret' = None
    /\ runStart' = Zeros(reminders)
    /\ streak' = Zeros(reminders)
    /\ UNCHANGED <<reminders, added, fired, schedVars, fmtVars, stampVars>>

Add ==
    /\ Len(reminders) < MaxReminders
    /\ \E in \in AddInputs :
          LET title == in[1]
              k == in[2]
          IN
          /\ reminders' =
                AppendReminder(reminders,
                               NewReminder(title, now + k[3], k[1], k[2], now))
          /\ added' = Append(added, [ title |-> title, remind_at |-> now + k[3],
                                      recurring |-> k[1], interval |-> k[2] ])
          /\ arg' = title
    /\ op' = "add"
    /\ ret' = None
    /\ fired' = Append(fired, 0)
    /\ runStart' = Zeros(reminders')
    /\ streak' = Zeros(reminders')
    /\ UNCHANGED <<now, schedVars, fmtVars, stampVars>>

ListActiveCall ==
    /\ op' = "list_active"
    /\ arg' = ""
    /\ ret' = ListActive(reminders)
    /\ runStart' = Zeros(reminders)
    /\ streak' = Zeros(reminders)
    /\ UNCHANGED <<now, reminders, added, fired, schedVars, fmtVars, stampVars>>

CheckDue ==
    /\ LET res == CheckDueLoop(reminders, 1, <<>>, now)
           counted(i) == /\ reminders[i].recurring
                         /\ reminders[i].interval \in {"daily", "weekly"}
       IN  /\ reminders' = res.reminders
           /\ ret' = res.due
           /\ fired' = [i \in Indices(reminders) |->
                           IF i \in Range(res.due) /\ ~reminders[i].recurring
                           THEN fired[i] + 1 ELSE fired[i]]
           /\ runStart' = IF op = "check_due"
                          THEN runStart
                          ELSE [i \in Indices(reminders) |-> reminders[i].remind_at]
           /\ streak' = [i \in Indices(reminders) |->
                            IF i \in Range(res.due) /\ counted(i)
                            THEN streak[i] + 1 ELSE streak[i]]
    /\ op' = "check_due"
    /\ arg' = ""
    /\ UNCHANGED <<now, added, schedVars, fmtVars, stampVars>>

Cancel ==
    /\ \E title \in Titles :
          LET res == CancelLoop(reminders, 1, title)
          IN  /\ reminders' = res.reminders
              /\ ret' = res.found
              /\ arg' = title
    /\ op' = "cancel"
    /\ runStart' = Zeros(reminders)
    /\ streak' = Zeros(reminders)
    /\ UNCHANGED <<now, added, fired, schedVars, fmtVars, stampVars>>

Next == Tick \/ Add \/ ListActiveCall \/ CheckDue \/ Cancel

Spec == Init /\ [][Next]_vars

(* --------------------- TaskScheduler, schedule_daily ------------------- *)

\* Most tasks the scheduler holds in a checked run.
MaxTasks == 2

\* get_next_task's None: the position of no task.
NoTask == 0

\* The UTC offset of a zone (both zones keep one offset all year).
ZoneOffset(tz) == IF tz = "Asia/Tokyo" THEN 9 * Hour ELSE 0

\* The wall-clock reading of instant t in zone tz, as ticks, and back.
ToLocal(t, tz) == t + ZoneOffset(tz)
FromLocal(l, tz) == l - ZoneOffset(tz)

\* Arrow.replace(hour=, minute=, second=) on a wall-clock reading: the date
\* and the sub-second part stay.
Replace(l, hour, minute, second) ==
    (l - (l % Day)) + hour * Hour + minute * Minute + second * Second + (l % Second)

\* Arrow.weekday() of a wall-clock reading (0 = Monday).
Weekday(l) == (l \div Day) % 7

\* Arrow.isoformat(): the fields the string spells out.
IsoFormat(t, tz) ==
    LET l == ToLocal(t, tz)
    IN  [ date |-> l \div Day,
          hour |-> (l % Day) \div Hour,
          minute |-> (l % Hour) \div Minute,
          second |-> (l % Minute) \div Second,
          fraction |-> l % Second,
          offset |-> ZoneOffset(tz) ]

\* next_run as schedule_daily computes it.
ScheduleDailyNextRun(t, tz, hour, minute) ==
    LET nowL == ToLocal(t, tz)
        next_run == Replace(nowL, hour, minute, 0)
    IN  IF next_run <= nowL
        THEN FromLocal(Shift(next_run, Day), tz)
        ELSE FromLocal(next_run, tz)

\* An add_daily_task that lets a time of day equal to the clock count as
\* still ahead.
DailyNextRunStrict(t, tz, hour, minute) ==
    LET nowL == ToLocal(t, tz)
        next_run == Replace(nowL, hour, minute, 0)
    IN  IF next_run < nowL
        THEN FromLocal(Shift(next_run, Day), tz)
        ELSE FromLocal(next_run, tz)

\* next_run as add_daily_task computes it.
DailyNextRun(t, tz, hour, minute) ==
    LET nowL == ToLocal(t, tz)
        next_run == Replace(nowL, hour, minute, 0)
    IN  IF next_run <= nowL
        THEN FromLocal(Shift(next_run, Day), tz)
        ELSE FromLocal(next_run, tz)

\* next_run as add_weekly_task computes it.
WeeklyNextRun(t, tz, day, hour, minute) ==
    LET nowL == ToLocal(t, tz)
        next_run == Replace(nowL, hour, minute, 0)
        diff == day - Weekday(nowL)
        days_ahead == IF diff <= 0 THEN diff + 7 ELSE diff
    IN  FromLocal(Shift(next_run, days_ahead * Day), tz)

\* The list comprehension of list_tasks, from position i on.
RECURSIVE ActiveTasksFrom(_, _)
ActiveTasksFrom(ts, i) ==
    IF i > Len(ts)
    THEN <<>>
    ELSE IF ts[i].active
         THEN <<i>> \o ActiveTasksFrom(ts, i + 1)
         ELSE ActiveTasksFrom(ts, i + 1)

ListTasks(ts) == ActiveTasksFrom(ts, 1)

\* A get_next_task that returns the first active task.
MinByNextRunFirst(ts, active_tasks) == active_tasks[1]

\* min(active_tasks, key=next_run): the first of the tasks with the least key.
MinByNextRun(ts, active_tasks) ==
    LET least(k) == \A j \in Indices(active_tasks) :
                        ts[active_tasks[k]].next_run <= ts[active_tasks[j]].next_run
        k0 == CHOOSE k \in Indices(active_tasks) :
                  least(k) /\ \A j \in Indices(active_tasks) : least(j) => k <= j
    IN  active_tasks[k0]

\* A get_next_task that passes over the tasks whose next_run is behind the
\* clock.
GetNextTaskUpcoming(ts) ==
    LET upcoming == SelectSeq(ListTasks(ts), LAMBDA i : ts[i].next_run >= now)
    IN  IF upcoming = <<>> THEN NoTask ELSE MinByNextRun(ts, upcoming)

GetNextTask(ts) ==
    LET active_tasks == ListTasks(ts)
    IN  IF active_tasks = <<>> THEN NoTask ELSE MinByNextRun(ts, active_tasks)

\* The instants the clock of the scheduler runs reads: just before, at and
\* just after 14:30:00 UTC of the Monday; Monday 20:00 UTC (Tuesday in
\* Tokyo); Wednesday 09:00 UTC; the last tick of the Sunday.
SchedNows ==
    { Epoch + 14 * Hour + 30 * Minute - 1,
      Epoch + 14 * Hour + 30 * Minute,
      Epoch + 14 * Hour + 30 * Minute + 1,
      Epoch + 20 * Hour,
      Epoch + 2 * Day + 9 * Hour,
      Epoch + Week - 1 }

\* <<hour, minute, timezone>> of the daily schedules of the runs.
DailyInputs ==
    { <<14, 30, "UTC">>, <<0, 0, "UTC">>, <<23, 30, "Asia/Tokyo">> }

\* <<day, hour, minute, timezone>> of the weekly schedules of the runs.
WeeklyInputs ==
    { <<0, 14, 30, "UTC">>, <<2, 14, 30, "UTC">>, <<6, 0, 0, "UTC">>,
      <<1, 5, 0, "Asia/Tokyo">> }

InitScheduler ==
    /\ now \in SchedNows
    /\ op = "init"
    /\ arg = ""
    /\ ret = None
    /\ reminders = <<>>
    /\ added = <<>>
    /\ fired = <<>>
    /\ runStart = <<>>
    /\ streak = <<>>
    /\ tasks = <<>>
    /\ lastNext = NoCall
    /\ templates = <<>>
    /\ latest = <<>>
    /\ ids = <<>>

\* Time passes between two calls.
SchedTick ==
    /\ \E t \in SchedNows : t > now /\ now' = t
    /\ op' = "tick"
    /\ ret' = None
    /\ UNCHANGED <<arg, remVars, schedVars, fmtVars, stampVars>>

ScheduleDaily ==
    /\ \E in \in DailyInputs :
          LET hour == in[1]
              minute == in[2]
              timezone == in[3]
              next_run == ScheduleDailyNextRun(now, timezone, hour, minute)
          IN  ret' = [ task |-> "job",
                       schedule |-> <<"Daily at", hour, minute>>,
                       timezone |-> timezone,
                       next_run |-> IsoFormat(next_run, timezone) ]
    /\ op' = "schedule_daily"
    /\ UNCHANGED <<now, arg, remVars, schedVars, fmtVars, stampVars>>

AddDailyTask ==
    /\ Len(tasks) < MaxTasks
    /\ \E in \in DailyInputs :
          LET hour == in[1]
              minute == in[2]
              timezone == in[3]
          IN  tasks' = Append(tasks,
                  [ name |-> "daily", type |-> "daily", hour |-> hour,
                    minute |-> minute, task |-> "job", timezone |-> timezone,
                    next_run |-> DailyNextRun(now, timezone, hour, minute),
                    active |-> TRUE ])
    /\ op' = "add_daily_task"
    /\ ret' = None
    /\ lastNext' = NoCall
    /\ UNCHANGED <<now, arg, remVars, fmtVars, stampVars>>

AddWeeklyTask ==
    /\ Len(tasks) < MaxTasks
    /\ \E in \in WeeklyInputs :
          LET day == in[1]
              hour == in[2]
              minute == in[3]
              timezone == in[4]
          IN  tasks' = Append(tasks,
                  [ name |-> "weekly", type |-> "weekly", day |-> day,
                    hour |-> hour, minute |-> minute, task |-> "job",
                    timezone |-> timezone,
                    next_run |-> WeeklyNextRun(now, timezone, day, hour, minute),
                    active |-> TRUE ])
    /\ op' = "add_weekly_task"
    /\ ret' = None
    /\ lastNext' = NoCall
    /\ UNCHANGED <<now, arg, remVars, fmtVars, stampVars>>

ListTasksCall ==
    /\ op' = "list_tasks"
    /\ ret' = ListTasks(tasks)
    /\ UNCHANGED <<now, arg, remVars, schedVars, fmtVars, stampVars>>

GetNextTaskCall ==
    /\ op' = "get_next_task"
    /\ ret' = GetNextTask(tasks)
    /\ lastNext' = IF lastNext.called /\ lastNext.task = ret'
                   THEN lastNext
                   ELSE [called |-> TRUE, task |-> ret', since |-> now]
    /\ UNCHANGED <<now, arg, remVars, tasks, fmtVars, stampVars>>

NextScheduler ==
    \/ SchedTick
    \/ ScheduleDaily
    \/ AddDailyTask
    \/ AddWeeklyTask
    \/ ListTasksCall
    \/ GetNextTaskCall

SpecScheduler == InitScheduler /\ [][NextScheduler]_vars

(* ------------------------------ calendar ------------------------------- *)

\* The civil calendar of the date/time library.  The tick count starts at
\* 2024-01-01 00:00 UTC, a Monday, so day number 0 is that day.
IsLeap(y) == (y % 4 = 0 /\ y % 100 # 0) \/ y % 400 = 0

DaysInYear(y) == IF IsLeap(y) THEN 366 ELSE 365

DaysInMonth(y, m) ==
    IF m = 2 THEN (IF IsLeap(y) THEN 29 ELSE 28)
    ELSE IF m \in {4, 6, 9, 11} THEN 30 ELSE 31

\* The day number of January 1st of year y.
RECURSIVE YearStart(_)
YearStart(y) ==
    IF y = 2024 THEN 0
    ELSE IF y > 2024 THEN YearStart(y - 1) + DaysInYear(y - 1)
         ELSE YearStart(y + 1) - DaysInYear(y)

RECURSIVE DaysBeforeMonth(_, _)
DaysBeforeMonth(y, m) ==
    IF m = 1 THEN 0 ELSE DaysBeforeMonth(y, m - 1) + DaysInMonth(y, m - 1)

\* The day number of the date y-m-d.
DayNumber(y, m, d) == YearStart(y) + DaysBeforeMonth(y, m) + d - 1

\* The years the instants of the runs fall in.
Years == 2018..2030

YearOfDay(n) == CHOOSE y \in Years : YearStart(y) <= n /\ n < YearStart(y + 1)

MonthOfDay(n) ==
    LET y == YearOfDay(n)
    IN  CHOOSE m \in 1..12 :
            DayNumber(y, m, 1) <= n /\ n < DayNumber(y, m, 1) + DaysInMonth(y, m)

DayOfMonth(n) == n - DayNumber(YearOfDay(n), MonthOfDay(n), 1) + 1

\* An Arrow value: the absolute instant t and the zone tz it is tagged with.
Tagged(t, tz) == [t |-> t, tz |-> tz]

\* The fields of an Arrow value, read on the wall clock of its own zone.
LocalDay(x) == ToLocal(x.t, x.tz) \div Day
YearOf(x) == YearOfDay(LocalDay(x))
MonthOf(x) == MonthOfDay(LocalDay(x))
DayOf(x) == DayOfMonth(LocalDay(x))
HourOf(x) == (ToLocal(x.t, x.tz) % Day) \div Hour
MinuteOf(x) == (ToLocal(x.t, x.tz) % Hour) \div Minute
SecondOf(x) == (ToLocal(x.t, x.tz) % Minute) \div Second

\* arrow.get(year, month, day): midnight UTC of that date.
ArrowGet(y, m, d) == Tagged(DayNumber(y, m, d) * Day, "UTC")

\* Arrow.shift(days=n) / shift(weeks=n) on a tagged value.
ShiftTagged(x, delta) == Tagged(Shift(x.t, delta), x.tz)

\* A raised exception: its type and its message.
Raised(type, message) == [raised |-> type, message |-> message]

\* A value returned by a call that can also end in an exception.
Returned(value) == [raised |-> "", value |-> value]

IsRaised(v) == "raised" \in DOMAIN v /\ v.raised # ""

(* --------------------------- timezone helpers -------------------------- *)

\* Most zone names get_world_times is called with in a checked run.
MaxZones == 3

\* The zone names the library knows, and a name it does not.
KnownZones == {"UTC", "Asia/Tokyo"}
ZoneNames == KnownZones \cup {"Invalid/Timezone"}

\* What str(dt.tzinfo) can be for a value tagged tz: the zone's name, or the
\* repr of the tzinfo object, depending on the tzinfo implementation the
\* installed library uses.
TzinfoStrs(tz) == {tz, "tzfile(...)"}

\* Arrow.replace(tzinfo=tz): the wall-clock fields stay, the zone changes.
ReplaceTzinfo(x, tz) == Tagged(FromLocal(ToLocal(x.t, x.tz), tz), tz)

\* Arrow.to(tz): the instant stays, the zone changes.
To(x, tz) == Tagged(x.t, tz)

\* convert_timezone; tzinfo_str is str(dt.tzinfo).  (An Arrow value always
\* has a tzinfo, so `dt.tzinfo is None` is false.)
ConvertTimezone(dt, tzinfo_str, from_tz, to_tz) ==
    LET dt1 == IF tzinfo_str # from_tz THEN ReplaceTzinfo(dt, from_tz) ELSE dt
    IN  To(dt1, to_tz)

\* Arrow.format('YYYY-MM-DD HH:mm:ss ZZ'): the fields the string spells out,
\* after the text it begins with (none).
FormatWorldTime(x) ==
    [ head |-> "", year |-> YearOf(x), month |-> MonthOf(x), day |-> DayOf(x),
      hour |-> HourOf(x), minute |-> MinuteOf(x), second |-> SecondOf(x),
      offset |-> ZoneOffset(x.tz) ]

\* f"Error: {str(e)}" for the exception Arrow.to raises on an unknown zone.
ErrorText(tz) == [head |-> "Error: ", detail |-> tz]

\* world_times[tz] = value
DictSet(d, key, value) ==
    [k \in (DOMAIN d) \cup {key} |-> IF k = key THEN value ELSE d[k]]

\* A get_world_times without the try: the first unknown zone ends the call.
RECURSIVE WorldTimesLoopNoTry(_, _, _, _)
WorldTimesLoopNoTry(dt, timezones, i, world_times) ==
    IF i > Len(timezones)
    THEN world_times
    ELSE IF timezones[i] \in KnownZones
         THEN WorldTimesLoopNoTry(dt, timezones, i + 1,
                  DictSet(world_times, timezones[i],
                          FormatWorldTime(To(dt, timezones[i]))))
         ELSE Raised("Exception", timezones[i])

\* get_world_times's loop from position i on.
RECURSIVE WorldTimesLoop(_, _, _, _)
WorldTimesLoop(dt, timezones, i, world_times) ==
    IF i > Len(timezones)
    THEN world_times
    ELSE IF timezones[i] \in KnownZones
         THEN WorldTimesLoop(dt, timezones, i + 1,
                  DictSet(world_times, timezones[i],
                          FormatWorldTime(To(dt, timezones[i]))))
         ELSE WorldTimesLoop(dt, timezones, i + 1,
                  DictSet(world_times, timezones[i], ErrorText(timezones[i])))

GetWorldTimes(dt, timezones) == WorldTimesLoop(dt, timezones, 1, <<>>)

\* The Arrow values the timezone helpers are called with: Monday noon UTC
\* and a tick past Monday 20:00 UTC (Tuesday in Tokyo), under either tag.
ZoneInstants ==
    { Tagged(t, tz) : t \in {Epoch + 12 * Hour, Epoch + 20 * Hour + 1},
                      tz \in KnownZones }

\* The lists of zone names of at most n names.
RECURSIVE ZoneLists(_)
ZoneLists(n) ==
    IF n = 0 THEN {<<>>}
    ELSE ZoneLists(n - 1) \cup
         { Append(l, z) : l \in { l \in ZoneLists(n - 1) : Len(l) = n - 1 },
                          z \in ZoneNames }

ConvertTimezoneCall ==
    /\ \E dt \in ZoneInstants, from_tz \in KnownZones, to_tz \in KnownZones :
          \E tzinfo_str \in TzinfoStrs(dt.tz) :
              /\ arg' = [ dt |-> dt, from_tz |-> from_tz, to_tz |-> to_tz,
                          tzinfo_str |-> tzinfo_str ]
              /\ ret' = ConvertTimezone(dt, tzinfo_str, from_tz, to_tz)
    /\ op' = "convert_timezone"
    /\ UNCHANGED <<now, remVars, schedVars, fmtVars, stampVars>>

GetWorldTimesCall ==
    /\ \E dt \in ZoneInstants, timezones \in ZoneLists(MaxZones) :
          /\ arg' = [dt |-> dt, timezones |-> timezones]
          /\ ret' = GetWorldTimes(dt, timezones)
    /\ op' = "get_world_times"
    /\ UNCHANGED <<now, remVars, schedVars, fmtVars, stampVars>>

NextZones == ConvertTimezoneCall \/ GetWorldTimesCall

SpecZones == Init /\ [][NextZones]_vars

(* ----------------------------- date helpers ---------------------------- *)

\* Longest span, in days, between the start and the end of a date range in
\* a checked run.
MaxSpan == 15

\* The smaller of two numbers.
Min(a, b) == IF a <= b THEN a ELSE b

\* Arrow.shift(months=n): the month moves, the day of the month is kept or
\* cut to the new month's last day, the time of day stays.
ShiftMonths(x, n) ==
    LET l == ToLocal(x.t, x.tz)
        total == YearOf(x) * 12 + (MonthOf(x) - 1) + n
        y == total \div 12
        m == (total % 12) + 1
        d == Min(DayOf(x), DaysInMonth(y, m))
    IN  Tagged(FromLocal(DayNumber(y, m, d) * Day + (l % Day), x.tz), x.tz)

\* Arrow.shift(years=n)
ShiftYears(x, n) == ShiftMonths(x, 12 * n)

\* Arrow.floor('day'): midnight of the value's day in its own zone.
FloorDay(x) ==
    LET l == ToLocal(x.t, x.tz)
    IN  Tagged(FromLocal(l - (l % Day), x.tz), x.tz)

\* A month ceiling that lands on the first instant of the next month.
CeilMonthNextStart(x) ==
    LET first == DayNumber(YearOf(x), MonthOf(x), 1)
    IN  Tagged(FromLocal((first + DaysInMonth(YearOf(x), MonthOf(x))) * Day, x.tz),
               x.tz)

\* Arrow.ceil('month'): the last instant of the value's month in its zone.
CeilMonth(x) ==
    LET first == DayNumber(YearOf(x), MonthOf(x), 1)
    IN  Tagged(FromLocal((first + DaysInMonth(YearOf(x), MonthOf(x))) * Day - 1,
                         x.tz), x.tz)

\* A range loop that stops before an element equal to end.
RECURSIVE DateRangeLoopExclusive(_, _, _, _)
DateRangeLoopExclusive(current, end, step, dates) ==
    IF ~(current.t < end.t)
    THEN Returned(dates)
    ELSE LET dates1 == Append(dates, current)
         IN  IF step = "day"
             THEN DateRangeLoopExclusive(ShiftTagged(current, Day), end, step, dates1)
             ELSE IF step = "week"
             THEN DateRangeLoopExclusive(ShiftTagged(current, Week), end, step, dates1)
             ELSE IF step = "month"
             THEN DateRangeLoopExclusive(ShiftMonths(current, 1), end, step, dates1)
             ELSE IF step = "year"
             THEN DateRangeLoopExclusive(ShiftYears(current, 1), end, step, dates1)
             ELSE Raised("ValueError", <<"Invalid step: ", step>>)

\* A range loop that tests the bound after appending.
RECURSIVE DateRangeLoopTestLast(_, _, _, _)
DateRangeLoopTestLast(current, end, step, dates) ==
    IF ~(current.t <= end.t)
    THEN Returned(Append(dates, current))
    ELSE LET dates1 == Append(dates, current)
         IN  IF step = "day"
             THEN DateRangeLoopTestLast(ShiftTagged(current, Day), end, step, dates1)
             ELSE IF step = "week"
             THEN DateRangeLoopTestLast(ShiftTagged(current, Week), end, step, dates1)
             ELSE IF step = "month"
             THEN DateRangeLoopTestLast(ShiftMonths(current, 1), end, step, dates1)
             ELSE IF step = "year"
             THEN DateRangeLoopTestLast(ShiftYears(current, 1), end, step, dates1)
             ELSE Raised("ValueError", <<"Invalid step: ", step>>)

\* get_date_range's while loop.
RECURSIVE DateRangeLoop(_, _, _, _)
DateRangeLoop(current, end, step, dates) ==
    IF ~(current.t <= end.t)
    THEN Returned(dates)
    ELSE LET dates1 == Append(dates, current)
         IN  IF step = "day"
             THEN DateRangeLoop(ShiftTagged(current, Day), end, step, dates1)
             ELSE IF step = "week"
             THEN DateRangeLoop(ShiftTagged(current, Week), end, step, dates1)
             ELSE IF step = "month"
             THEN DateRangeLoop(ShiftMonths(current, 1), end, step, dates1)
             ELSE IF step = "year"
             THEN DateRangeLoop(ShiftYears(current, 1), end, step, dates1)
             ELSE Raised("ValueError", <<"Invalid step: ", step>>)

GetDateRange(start, end, step) == DateRangeLoop(start, end, step, <<>>)

\* A business-day test that takes Saturday for a business day.
IsBusinessDaySaturday(date) == Weekday(ToLocal(date.t, date.tz)) < 6

\* is_business_day
IsBusinessDay(date) == Weekday(ToLocal(date.t, date.tz)) < 5

\* next_business_day's while loop.
RECURSIVE NextBusinessDayLoop(_)
NextBusinessDayLoop(next_day) ==
    IF ~IsBusinessDay(next_day)
    THEN NextBusinessDayLoop(ShiftTagged(next_day, Day))
    ELSE next_day

NextBusinessDay(date) == NextBusinessDayLoop(ShiftTagged(date, Day))

\* get_quarter_dates
GetQuarterDates(year, quarter) ==
    IF quarter < 1 \/ quarter > 4
    THEN Raised("ValueError", "Quarter must be between 1 and 4")
    ELSE LET start_month == (quarter - 1) * 3 + 1
             end_month == start_month + 2
             start == ArrowGet(year, start_month, 1)
             end == CeilMonth(ArrowGet(year, end_month, 1))
         IN  Returned(<<start, end>>)

\* A day count that rounds toward zero instead of down.
DeltaDaysTruncated(a, b) ==
    IF a.t >= b.t THEN (a.t - b.t) \div Day ELSE 0 - ((b.t - a.t) \div Day)

\* timedelta.days of the difference of two instants: whole days, rounded
\* down.
DeltaDays(a, b) == (a.t - b.t) \div Day

\* days_until when the clock reads t.
DaysUntil(target_date, t) ==
    LET now0 == FloorDay(Tagged(t, "UTC"))
        target == FloorDay(target_date)
    IN  Returned(DeltaDays(target, now0))

\* A comparison of (month, day) pairs that also holds for equal pairs.
TupleLessEq(a, b) == a[1] < b[1] \/ (a[1] = b[1] /\ a[2] <= b[2])

\* (a1, a2) < (b1, b2) on Python tuples.
TupleLess(a, b) == a[1] < b[1] \/ (a[1] = b[1] /\ a[2] < b[2])

\* age_from_birthdate when the clock reads t.
AgeFromBirthdate(birthdate, t) ==
    LET now0 == Tagged(t, "UTC")
        age == YearOf(now0) - YearOf(birthdate)
    IN  IF birthdate.t > now0.t
        THEN Raised("ValueError", "Birthdate cannot be in the future")
        ELSE IF TupleLess(<<MonthOf(now0), DayOf(now0)>>,
                          <<MonthOf(birthdate), DayOf(birthdate)>>)
             THEN Returned(age - 1)
             ELSE Returned(age)

\* The instant of year-month-day hour:00 UTC.
At(y, m, d, hour) == DayNumber(y, m, d) * Day + hour * Hour

\* The clock readings of the date helper runs: the Monday the tick count
\* of the other runs starts a week before, late on a leap day, and the
\* evening of a last day of the year (the next year has begun in Tokyo).
DateNows == {Epoch + 9 * Hour, At(2024, 2, 29, 22), At(2024, 12, 31, 20)}

\* Days of the year before and after a leap day, and the last of a year.
DateDays == { <<2, 28>>, <<3, 1>>, <<12, 31>> }

\* The dates the date helpers are called with: around every clock reading
\* (a tick or a day apart), on the days above in nearby years at noon, and
\* at both ends of a leap day, under either tag.
DateInputs ==
    { Tagged(t + d, tz) : t \in DateNows, d \in {0 - Day, 0 - 1, 0, 1, Day},
                          tz \in KnownZones }
    \cup { Tagged(At(y, md[1], md[2], 12), tz) :
               y \in {2020, 2023, 2025}, md \in DateDays, tz \in KnownZones }
    \cup { Tagged(At(2020, 2, 29, h), tz) : h \in {0, 23}, tz \in KnownZones }

\* The first instants of the date ranges: a Monday morning, and a tick past
\* noon at the end of January of a leap year.
RangeStarts ==
    { Tagged(Epoch + 9 * Hour, "UTC"),
      Tagged(At(2024, 1, 31, 12) + 1, "Asia/Tokyo") }

\* The spans, in days, from the start of a range to its end; the longest
\* reaches from the end of January to the end of March.
RangeSpans == {0 - 1, 0, 1, 2, 7, 14, MaxSpan, 60}

\* The step names get_date_range is called with.
Steps == {"day", "week", "month", "year", "invalid"}

InitDates ==
    /\ now \in DateNows
    /\ op = "init"
    /\ arg = ""
    /\ ret = None
    /\ reminders = <<>>
    /\ added = <<>>
    /\ fired = <<>>
    /\ runStart = <<>>
    /\ streak = <<>>
    /\ tasks = <<>>
    /\ lastNext = NoCall
    /\ templates = <<>>
    /\ latest = <<>>
    /\ ids = <<>>

GetDateRangeCall ==
    /\ \E start \in RangeStarts, span \in RangeSpans, part \in {0 - 1, 0, 1},
          step \in Steps :
          /\ arg' = [ start |-> start,
                      end |-> Tagged(start.t + span * Day + part, "UTC"),
                      step |-> step ]
          /\ ret' = GetDateRange(arg'.start, arg'.end, step)
    /\ op' = "get_date_range"
    /\ UNCHANGED <<now, remVars, schedVars, fmtVars, stampVars>>

IsBusinessDayCall ==
    /\ \E date \in DateInputs :
          /\ arg' = [date |-> date]
          /\ ret' = IsBusinessDay(date)
    /\ op' = "is_business_day"
    /\ UNCHANGED <<now, remVars, schedVars, fmtVars, stampVars>>

NextBusinessDayCall ==
    /\ \E date \in DateInputs :
          /\ arg' = [date |-> date]
          /\ ret' = NextBusinessDay(date)
    /\ op' = "next_business_day"
    /\ UNCHANGED <<now, remVars, schedVars, fmtVars, stampVars>>

GetQuarterDatesCall ==
    /\ \E year \in 2023..2025, quarter \in 0..5 :
          /\ arg' = [year |-> year, quarter |-> quarter]
          /\ ret' = GetQuarterDates(year, quarter)
    /\ op' = "get_quarter_dates"
    /\ UNCHANGED <<now, remVars, schedVars, fmtVars, stampVars>>

DaysUntilCall ==
    /\ \E target_date \in DateInputs :
          /\ arg' = [target_date |-> target_date]
          /\ ret' = DaysUntil(target_date, now)
    /\ op' = "days_until"
    /\ UNCHANGED <<now, remVars, schedVars, fmtVars, stampVars>>

AgeFromBirthdateCall ==
    /\ \E birthdate \in DateInputs :
          /\ arg' = [birthdate |-> birthdate]
          /\ ret' = AgeFromBirthdate(birthdate, now)
    /\ op' = "age_from_birthdate"
    /\ UNCHANGED <<now, remVars, schedVars, fmtVars, stampVars>>

NextDates ==
    \/ GetDateRangeCall
    \/ IsBusinessDayCall
    \/ NextBusinessDayCall
    \/ GetQuarterDatesCall
    \/ DaysUntilCall
    \/ AgeFromBirthdateCall

SpecDates == InitDates /\ [][NextDates]_vars

(* ------------------------------ formatters ----------------------------- *)

\* One entry of the templates dict.
Template(name, pattern) == [name |-> name, pattern |-> pattern]

\* DateFormatter.__init__'s templates, in the dict's order; a pattern is
\* the sequence of its tokens.
DefaultTemplates ==
    << Template("short", <<"YYYY", "-", "MM", "-", "DD">>),
       Template("long", <<"MMMM", " ", "DD", ", ", "YYYY">>),
       Template("time", <<"HH", ":", "mm", ":", "ss">>),
       Template("datetime",
                <<"YYYY", "-", "MM", "-", "DD", " ", "HH", ":", "mm", ":", "ss">>),
       Template("iso",
                <<"YYYY", "-", "MM", "-", "DD", "T", "HH", ":", "mm", ":", "ss", "ZZ">>),
       Template("filename", <<"YYYY", "MM", "DD", "_", "HH", "mm", "ss">>),
       Template("log",
                <<"YYYY", "-", "MM", "-", "DD", " ", "HH", ":", "mm", ":", "ss">>),
       Template("display",
                <<"MMMM", " ", "DD", ", ", "YYYY", " ", "[at]", " ", "h", ":", "mm",
                  " ", "A">>) >>

\* What Arrow.format writes for one token: the token's field of dt (the
\* month for the month name, 12 for hour 0 on the 12-hour clock, 0 or 1 for
\* AM or PM), or the token's own text for a literal.
FormatToken(dt, token) ==
    CASE token = "YYYY" -> [text |-> "", value |-> YearOf(dt)]
      [] token \in {"MM", "MMMM"} -> [text |-> "", value |-> MonthOf(dt)]
      [] token = "DD" -> [text |-> "", value |-> DayOf(dt)]
      [] token = "HH" -> [text |-> "", value |-> HourOf(dt)]
      [] token = "h" ->
            [text |-> "", value |-> IF HourOf(dt) % 12 = 0 THEN 12 ELSE HourOf(dt) % 12]
      [] token = "A" -> [text |-> "", value |-> IF HourOf(dt) < 12 THEN 0 ELSE 1]
      [] token = "mm" -> [text |-> "", value |-> MinuteOf(dt)]
      [] token = "ss" -> [text |-> "", value |-> SecondOf(dt)]
      [] token = "ZZ" -> [text |-> "", value |-> ZoneOffset(dt.tz)]
      [] token = "[at]" -> [text |-> "at", value |-> 0]
      [] OTHER -> [text |-> token, value |-> 0]

\* Arrow.format(pattern)
ArrowFormat(dt, pattern) == [i \in DOMAIN pattern |-> FormatToken(dt, pattern[i])]

\* name in self.templates
HasTemplate(ts, name) == \E i \in Indices(ts) : ts[i].name = name

\* self.templates[name]
TemplateOf(ts, name) == ts[CHOOSE i \in Indices(ts) : ts[i].name = name].pattern

\* A format that falls back to the default template for an unknown name.
FormatterFormatDefault(ts, dt, template) ==
    IF ~HasTemplate(ts, template)
    THEN Returned(ArrowFormat(dt, TemplateOf(ts, "datetime")))
    ELSE Returned(ArrowFormat(dt, TemplateOf(ts, template)))

\* DateFormatter.format
FormatterFormat(ts, dt, template) ==
    IF ~HasTemplate(ts, template)
    THEN Raised("ValueError", <<"Unknown template: ", template>>)
    ELSE Returned(ArrowFormat(dt, TemplateOf(ts, template)))

\* An assignment that adds an entry even when the name has one.
AppendTemplate(ts, name, format_string) == Append(ts, Template(name, format_string))

\* self.templates[name] = format_string: a new key goes last, a known key
\* keeps its place.
SetTemplate(ts, name, format_string) ==
    IF HasTemplate(ts, name)
    THEN [i \in Indices(ts) |->
              IF ts[i].name = name THEN Template(name, format_string) ELSE ts[i]]
    ELSE Append(ts, Template(name, format_string))

\* list(self.templates.keys())
TemplateNames(ts) == [i \in Indices(ts) |-> ts[i].name]

\* The names format is called with, the names add_template registers and
\* the patterns it registers them with.
FormatNames == {"short", "datetime", "display", "custom", "unknown"}
NewNames == {"custom", "short"}
NewPatterns == { <<"YYYY">>, <<"HH", ":", "mm">> }

InitFormatter ==
    /\ now = Epoch
    /\ op = "init"
    /\ arg = ""
    /\ ret = None
    /\ reminders = <<>>
    /\ added = <<>>
    /\ fired = <<>>
    /\ runStart = <<>>
    /\ streak = <<>>
    /\ tasks = <<>>
    /\ lastNext = NoCall
    /\ templates = DefaultTemplates
    /\ latest = <<>>
    /\ ids = <<>>

FormatCall ==
    /\ \E dt \in ZoneInstants, template \in FormatNames :
          /\ arg' = [dt |-> dt, template |-> template]
          /\ ret' = FormatterFormat(templates, dt, template)
    /\ op' = "format"
    /\ UNCHANGED <<now, remVars, schedVars, fmtVars, stampVars>>

AddTemplate ==
    /\ \E name \in NewNames, format_string \in NewPatterns :
          /\ arg' = [name |-> name, format_string |-> format_string]
          /\ templates' = SetTemplate(templates, name, format_string)
          /\ latest' = DictSet(latest, name, format_string)
    /\ op' = "add_template"
    /\ ret' = None
    /\ UNCHANGED <<now, remVars, schedVars, stampVars>>

ListTemplatesCall ==
    /\ op' = "list_templates"
    /\ arg' = ""
    /\ ret' = TemplateNames(templates)
    /\ UNCHANGED <<now, remVars, schedVars, fmtVars, stampVars>>

NextFormatter == FormatCall \/ AddTemplate \/ ListTemplatesCall

SpecFormatter == InitFormatter /\ [][NextFormatter]_vars

(* --------------------------- timestamp tools --------------------------- *)

\* Most generate_unique_id calls of a checked run.
MaxIds == 2

\* A string is the sequence of its characters; these are the digits.
DigitChars == <<"0", "1", "2", "3", "4", "5", "6", "7", "8", "9">>

\* \d of the pattern
IsDigit(c) == c \in Range(DigitChars)

\* The decimal digits of n, zero-padded to width characters, as
\* Arrow.format writes a field.
RECURSIVE Pad(_, _)
Pad(n, width) ==
    IF width = 0 THEN <<>>
    ELSE Append(Pad(n \div 10, width - 1), DigitChars[(n % 10) + 1])

\* int() of a string of digits, as the parser reads a field.
RECURSIVE ToInt(_)
ToInt(digits) ==
    IF digits = <<>> THEN 0
    ELSE ToInt(SubSeq(digits, 1, Len(digits) - 1)) * 10
         + (CHOOSE d \in 0..9 : DigitChars[d + 1] = digits[Len(digits)])

\* Arrow.format('YYYYMMDD')
FormatDate(x) == Pad(YearOf(x), 4) \o Pad(MonthOf(x), 2) \o Pad(DayOf(x), 2)

\* Arrow.format('YYYYMMDD_HHmmss')
FormatStamp(x) ==
    FormatDate(x) \o <<"_">> \o Pad(HourOf(x), 2) \o Pad(MinuteOf(x), 2)
                  \o Pad(SecondOf(x), 2)

\* The pattern (\d{8})_(\d{6}) matches the string from position p on.
MatchAt(filename, p) ==
    /\ p + 14 <= Len(filename)
    /\ \A k \in 0..7 : IsDigit(filename[p + k])
    /\ filename[p + 8] = "_"
    /\ \A k \in 9..14 : IsDigit(filename[p + k])

\* A search that returns the last match instead of the first.
SearchLast(filename) ==
    LET ps == { p \in Indices(filename) : MatchAt(filename, p) }
    IN  IF ps = {} THEN 0 ELSE CHOOSE p \in ps : \A q \in ps : q <= p

\* re.search: the start of the leftmost match, 0 when there is none.
Search(filename) ==
    LET ps == { p \in Indices(filename) : MatchAt(filename, p) }
    IN  IF ps = {} THEN 0 ELSE CHOOSE p \in ps : \A q \in ps : p <= q

\* arrow.get(combined, 'YYYYMMDD_HHmmss') inside the try: the UTC instant
\* the fields name, in a list of one, or the empty list when they name no
\* date and time and the parser raises.  (The runs keep hours below 24.)
ArrowGetStamp(combined) ==
    LET y == ToInt(SubSeq(combined, 1, 4))
        m == ToInt(SubSeq(combined, 5, 6))
        d == ToInt(SubSeq(combined, 7, 8))
        h == ToInt(SubSeq(combined, 10, 11))
        mi == ToInt(SubSeq(combined, 12, 13))
        sec == ToInt(SubSeq(combined, 14, 15))
    IN  IF /\ y >= 1 /\ m \in 1..12 /\ d >= 1 /\ d <= DaysInMonth(y, m)
           /\ h <= 23 /\ mi <= 59 /\ sec <= 59
        THEN << Tagged(DayNumber(y, m, d) * Day + h * Hour + mi * Minute
                       + sec * Second, "UTC") >>
        ELSE <<>>

\* parse_timestamp_filename: a list of one Arrow, or the empty list for
\* None.
ParseTimestampFilename(filename) ==
    LET p == Search(filename)
    IN  IF p # 0 THEN ArrowGetStamp(SubSeq(filename, p, p + 14)) ELSE <<>>

\* A file name stamped with the date alone.
GenerateDatedFilename(base_name, extension, t) ==
    base_name \o <<"_">> \o FormatDate(Tagged(t, "UTC"))
              \o (IF extension # <<>> /\ extension[1] # "." THEN <<".">> ELSE <<>>)
              \o extension

\* generate_timestamped_filename with the default format_str, when the
\* clock reads t.
GenerateTimestampedFilename(base_name, extension, t) ==
    base_name \o <<"_">> \o FormatStamp(Tagged(t, "UTC"))
              \o (IF extension # <<>> /\ extension[1] # "." THEN <<".">> ELSE <<>>)
              \o extension

\* generate_unique_id when the clock reads t: the ten digits of the Unix
\* seconds (2024-01-01 is second 1704067200) and the six digits of the
\* microseconds.
GenerateUniqueId(t) ==
    Pad(1704067200 + (t \div Second), 10)
        \o Pad(((t % Second) * 1000000) \div Second, 6)

\* a / b rounded toward zero, as int() rounds a float.
Trunc(a, b) == IF a >= 0 THEN a \div b ELSE 0 - ((0 - a) \div b)

\* An Arrow near the Unix epoch, kept by its tick count since that epoch
\* (the tick scale of the other values starts in 2024).
UnixArrow(u) == [unix |-> u, tz |-> "UTC"]

\* timestamp_to_datetime: arrow.get keeps the value to the resolution of
\* the clock, rounding to the nearest tick.
TimestampToDatetime(ts, unit) ==
    IF unit = "milliseconds"
    THEN UnixArrow((2 * ts * Second + 1000) \div 2000)
    ELSE UnixArrow(ts * Second)

\* datetime_to_timestamp
DatetimeToTimestamp(dt, unit) ==
    LET ts == Trunc(dt.unix, Second)
    IN  IF unit = "milliseconds" THEN ts * 1000 ELSE ts

\* The clock readings of the timestamp tool runs: two a tick apart on
\* Monday 2024-01-08 at midnight, and two at 14:30:45.
StampNows ==
    { Epoch, Epoch + 1, Epoch + 14 * Hour + 30 * Minute + 45 * Second,
      Epoch + 14 * Hour + 30 * Minute + 45 * Second + 1 }

\* The digits and underscore of a stamp with the given fields.
Stamp(y, m, d, h, mi, sec) ==
    Pad(y, 4) \o Pad(m, 2) \o Pad(d, 2) \o <<"_">> \o Pad(h, 2) \o Pad(mi, 2)
              \o Pad(sec, 2)

\* The file names parse_timestamp_filename is called with: a beginning, a
\* stamp (a date and time, a thirteenth month, a February 30th, or one
\* digit short) and an end with or without a second stamp.
ParseInputs ==
    { a \o b \o c :
        a \in { <<>>, <<"l", "o", "g", "_">>, <<"1", "2", "3", "4">>,
                Pad(12345678, 8) \o <<"_">> },
        b \in { Stamp(2024, 2, 7, 14, 30, 45), Stamp(2024, 13, 1, 0, 0, 0),
                Stamp(2024, 2, 30, 12, 0, 0),
                Pad(2024027, 7) \o <<"_">> \o Pad(143045, 6) },
        c \in { <<>>, <<".", "z", "i", "p">>, <<"9">>,
                <<"_">> \o Stamp(2025, 1, 1, 0, 0, 0) } }

\* The base names and extensions generate_timestamped_filename is called
\* with.
BaseNames ==
    { <<"l", "o", "g">>, <<>>, <<"v", "2", "_">>, Stamp(2023, 1, 1, 0, 0, 0),
      Pad(12345678, 8), <<"a">> \o Pad(20230101, 8) \o <<"_">> }
Extensions == { <<>>, <<".", "z", "i", "p">>, <<"g", "z">> }

\* The whole seconds and the milliseconds timestamp_to_datetime is called
\* with: the milliseconds are those the clock's resolution can tell apart.
StampSeconds == (0 - 2)..2
StampMillis == { Trunc(n * 1000, Second) : n \in (0 - 2 * Second)..(2 * Second) }

StampTick ==
    /\ \E t \in StampNows : t > now /\ now' = t
    /\ op' = "tick"
    /\ arg' = ""
    /\ ret' = None
    /\ UNCHANGED <<remVars, schedVars, fmtVars, stampVars>>

GenerateUniqueIdCall ==
    /\ Len(ids) < MaxIds
    /\ op' = "generate_unique_id"
    /\ arg' = ""
    /\ ret' = GenerateUniqueId(now)
    /\ ids' = Append(ids, ret')
    /\ UNCHANGED <<now, remVars, schedVars, fmtVars>>

\* The file name is one of the inputs or the name the call before returned.
ParseTimestampFilenameCall ==
    /\ \E filename \in ParseInputs \cup
                       (IF op = "generate_timestamped_filename" THEN {ret} ELSE {}) :
          /\ arg' = [filename |-> filename]
          /\ ret' = ParseTimestampFilename(filename)
    /\ op' = "parse_timestamp_filename"
    /\ UNCHANGED <<now, remVars, schedVars, fmtVars, stampVars>>

GenerateTimestampedFilenameCall ==
    /\ \E base_name \in BaseNames, extension \in Extensions :
          /\ arg' = [base_name |-> base_name, extension |-> extension]
          /\ ret' = GenerateTimestampedFilename(base_name, extension, now)
    /\ op' = "generate_timestamped_filename"
    /\ UNCHANGED <<now, remVars, schedVars, fmtVars, stampVars>>

TimestampToDatetimeCall ==
    /\ \E unit \in {"seconds", "milliseconds"} :
          \E ts \in (IF unit = "seconds" THEN StampSeconds ELSE StampMillis) :
              /\ arg' = [ts |-> ts, unit |-> unit]
              /\ ret' = TimestampToDatetime(ts, unit)
    /\ op' = "timestamp_to_datetime"
    /\ UNCHANGED <<now, remVars, schedVars, fmtVars, stampVars>>

\* The Arrow is the one the call before returned, or the one either call
\* before it was made with.
DatetimeToTimestampCall ==
    /\ op \in {"timestamp_to_datetime", "datetime_to_timestamp"}
    /\ \E unit \in {"seconds", "milliseconds"} :
          /\ arg' = [ dt |-> IF op = "timestamp_to_datetime" THEN ret ELSE arg.dt,
                      unit |-> unit ]
          /\ ret' = DatetimeToTimestamp(arg'.dt, unit)
    /\ op' = "datetime_to_timestamp"
    /\ UNCHANGED <<now, remVars, schedVars, fmtVars, stampVars>>

NextStamps ==
    \/ StampTick
    \/ GenerateUniqueIdCall
    \/ ParseTimestampFilenameCall
    \/ GenerateTimestampedFilenameCall
    \/ TimestampToDatetimeCall
    \/ DatetimeToTimestampCall

SpecStamps == Init /\ [][NextStamps]_vars

(* ------------------------- claims: Reminder ---------------------------- *)

\* s lists positions of the store in increasing (storage) order.
InStorageOrder(s) == \A k1, k2 \in Indices(s) : k1 < k2 => s[k1] < s[k2]

\* C1: check_due returns exactly the records that are active and have
\* remind_at <= now when it is called, each once, in storage order.
C1_CheckDueExact ==
    [][ op' = "check_due" =>
          /\ Range(ret') =
                { i \in Indices(reminders) :
                    reminders[i].active /\ reminders[i].remind_at <= now }
          /\ InStorageOrder(ret') ]_vars

\* A check_due has returned the second record and skipped the first, which
\* is overdue but inactive.
C1_Witness ==
    /\ op = "check_due"
    /\ Len(reminders) = 2
    /\ ret = <<2>>
    /\ ~reminders[1].active
    /\ reminders[1].remind_at <= now

\* C2: a non-recurring reminder is returned by at most one check_due call,
\* and from the call that returns it on it is inactive.
C2_FiredAtMostOnce ==
    \A i \in Indices(reminders) :
        ~reminders[i].recurring =>
            /\ fired[i] <= 1
            /\ fired[i] = 1 => ~reminders[i].active

\* A non-recurring reminder was returned once, the clock has moved on, and
\* a later check_due has not returned it.
C2_Witness ==
    /\ op = "check_due"
    /\ \E i \in Indices(reminders) :
          /\ ~reminders[i].recurring
          /\ fired[i] = 1
          /\ i \notin Range(ret)
          /\ now > reminders[i].created_at

\* The length of a recognised recurrence interval.
IntervalLength(interval) == IF interval = "daily" THEN Day ELSE Week

\* C3: a check_due that returns a recurring daily (weekly) reminder moves
\* its remind_at by exactly one day (week), leaves it active and leaves
\* every other field alone; and in a run of consecutive check_due calls at
\* one now, a reminder overdue by k whole intervals when the run began is
\* returned by the first k+1 calls and by no later one.
C3_OneIntervalPerCall ==
    [][ op' = "check_due" =>
          \A i \in Indices(reminders) :
              LET r == reminders[i]
                  len == IntervalLength(r.interval)
                  k == (now - runStart'[i]) \div len
              IN  (r.recurring /\ r.interval \in {"daily", "weekly"}) =>
                    /\ i \in Range(ret') =>
                          /\ reminders'[i] = [r EXCEPT !.remind_at = @ + len]
                          /\ reminders'[i].active
                          /\ streak'[i] <= k + 1
                    /\ (i \notin Range(ret') /\ r.active /\ runStart'[i] <= now) =>
                          streak'[i] = k + 1 ]_vars

\* A daily reminder that was overdue by one whole day has been returned by
\* two consecutive check_due calls and is now scheduled after the clock.
C3_Witness ==
    /\ op = "check_due"
    /\ \E i \in Indices(reminders) :
          /\ reminders[i].interval = "daily"
          /\ streak[i] = 2
          /\ i \in Range(ret)
          /\ reminders[i].remind_at = runStart[i] + 2 * Day
          /\ reminders[i].remind_at > now

\* The earliest-stored active record with this title (0 when there is none).
FirstActive(rs, title) ==
    LET js == { i \in Indices(rs) : rs[i].title = title /\ rs[i].active }
    IN  IF js = {} THEN 0 ELSE CHOOSE j \in js : \A i \in js : j <= i

\* C4: when an active record has the title, cancel returns True and
\* deactivates the earliest-stored active record with that title and
\* nothing else.
C4_CancelFirstActive ==
    [][ (op' = "cancel" /\ FirstActive(reminders, arg') # 0) =>
          /\ ret' = TRUE
          /\ reminders' =
                [reminders EXCEPT ![FirstActive(reminders, arg')].active = FALSE] ]_vars

\* A cancel has deactivated the first of two records with the same title:
\* the second is still active.
C4_Witness ==
    /\ op = "cancel"
    /\ ret = TRUE
    /\ Len(reminders) = 2
    /\ reminders[1].title = arg
    /\ reminders[2].title = arg
    /\ ~reminders[1].active
    /\ fired[1] = 0
    /\ reminders[2].active

\* C5: cancel returns a boolean, False exactly when no active record has
\* the title, and then it leaves the store as it was.
C5_CancelNotFound ==
    [][ op' = "cancel" =>
          /\ ret' \in BOOLEAN
          /\ ret' = FALSE <=>
                ~\E i \in Indices(reminders) :
                    reminders[i].title = arg' /\ reminders[i].active
          /\ ret' = FALSE => reminders' = reminders ]_vars

\* A cancel has returned False although a record with the title is stored:
\* that record is inactive.
C5_Witness ==
    /\ op = "cancel"
    /\ ret = FALSE
    /\ \E i \in Indices(reminders) : reminders[i].title = arg
    /\ \E i \in Indices(reminders) : reminders[i].active

\* C6: the store holds one record per add call, in call order, whatever
\* has been deactivated since (remind_at is the one argument check_due
\* may have moved).
C6_NothingRemoved ==
    /\ Len(reminders) = Len(added)
    /\ \A i \in Indices(reminders) :
          /\ reminders[i].title = added[i].title
          /\ reminders[i].recurring = added[i].recurring
          /\ reminders[i].interval = added[i].interval
          /\ reminders[i].remind_at >= added[i].remind_at
          /\ reminders[i].remind_at # added[i].remind_at =>
                reminders[i].interval \in {"daily", "weekly"}

\* Two adds with different arguments, the first record deactivated since by
\* check_due and the second by cancel: both are still stored, in call order.
C6_Witness ==
    /\ Len(reminders) = 2
    /\ added[1] # added[2]
    /\ ~reminders[1].active
    /\ fired[1] = 1
    /\ ~reminders[2].active
    /\ fired[2] = 0

\* C7: list_active returns exactly the records with active = true, in
\* storage order, and changes none; add appends an active record; and an
\* active record becomes inactive only in a check_due that returns it as
\* non-recurring or in a cancel of its title that returns True.
C7_ListActive ==
    [][ /\ op' = "list_active" =>
              /\ Range(ret') = { i \in Indices(reminders) : reminders[i].active }
              /\ InStorageOrder(ret')
              /\ reminders' = reminders
        /\ op' = "add" =>
              /\ Len(reminders') = Len(reminders) + 1
              /\ reminders'[Len(reminders')].active
        /\ \A i \in Indices(reminders) :
              (reminders[i].active /\ ~reminders'[i].active) =>
                  \/ /\ op' = "check_due"
                     /\ ~reminders[i].recurring
                     /\ i \in Range(ret')
                  \/ /\ op' = "cancel"
                     /\ ret' = TRUE
                     /\ reminders[i].title = arg' ]_vars

\* list_active has returned the second of two stored records: the first is
\* inactive.
C7_Witness ==
    /\ op = "list_active"
    /\ Len(reminders) = 2
    /\ ret = <<2>>
    /\ ~reminders[1].active

(* ---------------------- claims: TaskScheduler -------------------------- *)

\* The offset of each zone of the runs.
OffsetOf(tz) == CASE tz = "UTC" -> 0 [] tz = "Asia/Tokyo" -> 9 * Hour

\* Today's hour:minute:00 on the wall clock of zone tz when the clock reads t.
TodayAt(t, tz, hour, minute) ==
    LET l == t + OffsetOf(tz)
    IN  (l \div Day) * Day + hour * Hour + minute * Minute - OffsetOf(tz)

\* The claim's next_run of a daily schedule: today's hour:minute when that
\* is strictly later than the clock, the same time on the next day otherwise.
DailyExpected(t, tz, hour, minute) ==
    IF TodayAt(t, tz, hour, minute) > t
    THEN TodayAt(t, tz, hour, minute)
    ELSE TodayAt(t, tz, hour, minute) + Day

\* An instant cut to whole seconds.
ToTheSecond(t) == t - (t % Second)

\* The instant an isoformat string denotes.
IsoInstant(iso) ==
    iso.date * Day + iso.hour * Hour + iso.minute * Minute
        + iso.second * Second + iso.fraction - iso.offset

\* C8: the next_run of add_daily_task and of schedule_daily is, to the
\* second, today's hour:minute in the given zone when that is strictly
\* later than now and the same time on the next day otherwise; it is
\* strictly after now and at most one day after now.
C8_DailyNextRun ==
    /\ op = "add_daily_task" =>
          LET t == tasks[Len(tasks)]
          IN  /\ ToTheSecond(t.next_run) =
                    DailyExpected(now, t.timezone, t.hour, t.minute)
              /\ now < t.next_run
              /\ t.next_run <= now + Day
    /\ op = "schedule_daily" =>
          LET next_run == IsoInstant(ret.next_run)
          IN  /\ ToTheSecond(next_run) =
                    DailyExpected(now, ret.timezone, ret.schedule[2], ret.schedule[3])
              /\ now < next_run
              /\ next_run <= now + Day

\* A daily task has been added for the very second the clock reads, a
\* fraction of a second in: it runs exactly one day from now.
C8_Witness ==
    /\ op = "add_daily_task"
    /\ LET t == tasks[Len(tasks)]
       IN  /\ TodayAt(now, t.timezone, t.hour, t.minute) = ToTheSecond(now)
           /\ now # ToTheSecond(now)
           /\ t.next_run = now + Day

\* The earliest instant strictly after t that falls on weekday `day` at
\* hour:minute:00 of zone tz.
WeeklyExpected(t, tz, day, hour, minute) ==
    LET l == t + OffsetOf(tz)
        at(n) == TodayAt(t, tz, hour, minute) + n * Day
        ok(n) == ((l \div Day) + n) % 7 = day /\ at(n) > t
        n0 == CHOOSE n \in 0..7 : ok(n) /\ \A m \in 0..7 : ok(m) => n <= m
    IN  at(n0)

\* C9: the next_run of add_weekly_task is, to the second, the earliest
\* instant strictly after now on weekday `day` at hour:minute (today, when
\* `day` is today's weekday and the time of day is still ahead).
C9_WeeklyNextOccurrence ==
    op = "add_weekly_task" =>
        LET t == tasks[Len(tasks)]
        IN  ToTheSecond(t.next_run) =
                WeeklyExpected(now, t.timezone, t.day, t.hour, t.minute)

\* C10: get_next_task returns None exactly when no task is active, and
\* otherwise an active task whose next_run no active task's next_run is
\* below; it changes no task.
C10_GetNextTask ==
    [][ op' = "get_next_task" =>
          /\ ret' = NoTask <=> ~\E i \in Indices(tasks) : tasks[i].active
          /\ ret' # NoTask =>
                /\ ret' \in Indices(tasks)
                /\ tasks[ret'].active
                /\ \A j \in Indices(tasks) :
                      tasks[j].active => tasks[ret'].next_run <= tasks[j].next_run
          /\ tasks' = tasks ]_vars

\* get_next_task has returned the second of two tasks: it runs before the
\* first.
C10_Witness ==
    /\ op = "get_next_task"
    /\ Len(tasks) = 2
    /\ ret = 2
    /\ tasks[2].next_run < tasks[1].next_run

\* C11: no TaskScheduler operation changes a stored task (next_run is the
\* value computed when the task was added), and as long as no task is
\* added get_next_task returns what it returned before, however far the
\* clock has moved past that task's next_run.
C11_NoRearming ==
    [][ /\ \A i \in Indices(tasks) :
              i \in Indices(tasks') /\ tasks'[i] = tasks[i]
        /\ (op' = "get_next_task" /\ lastNext.called) => ret' = lastNext.task ]_vars

\* get_next_task returns the task it first returned at an earlier reading of
\* the clock, and that task's next_run is behind the clock now.
C11_Witness ==
    /\ op = "get_next_task"
    /\ ret # NoTask
    /\ lastNext.task = ret
    /\ lastNext.since < tasks[ret].next_run
    /\ tasks[ret].next_run < now

(* ----------------------- claims: timezone helpers ---------------------- *)

\* C12: convert_timezone returns a value with the timestamp of dt, for
\* every dt, from_tz and to_tz, whatever zone dt is tagged with.
C12_PreservesMoment ==
    op = "convert_timezone" => ret.t = arg.dt.t

\* The fields of instant t on the wall clock of zone tz, as the formatted
\* time spells them.
WorldTimeOf(t, tz) ==
    LET l == t + OffsetOf(tz)
        n == l \div Day
    IN  [ head |-> "", year |-> YearOfDay(n), month |-> MonthOfDay(n),
          day |-> DayOfMonth(n), hour |-> (l % Day) \div Hour,
          minute |-> (l % Hour) \div Minute, second |-> (l % Minute) \div Second,
          offset |-> OffsetOf(tz) ]

\* C13: get_world_times returns a map with an entry for every listed name:
\* the local time of dt for a known zone, a text beginning with the error
\* marker for an unknown one, wherever the unknown names stand in the list.
C13_WorldTimesPerEntry ==
    op = "get_world_times" =>
        /\ ~IsRaised(ret)
        /\ DOMAIN ret = Range(arg.timezones)
        /\ \A tz \in Range(arg.timezones) :
              IF tz \in {"UTC", "Asia/Tokyo"}
              THEN ret[tz] = WorldTimeOf(arg.dt.t, tz)
              ELSE ret[tz].head = "Error: "

\* get_world_times was called with an unknown name before and after a known
\* one and has returned the known zone's time (on the next day in Tokyo).
C13_Witness ==
    /\ op = "get_world_times"
    /\ arg.timezones = <<"Invalid/Timezone", "Asia/Tokyo", "Invalid/Timezone">>
    /\ arg.dt.tz = "UTC"
    /\ ret["Asia/Tokyo"].head = ""
    /\ ret["Asia/Tokyo"].day = 9
    /\ ret["Invalid/Timezone"].head = "Error: "

(* ------------------------- claims: date helpers ------------------------ *)

\* C14: get_date_range fails with the invalid-step error for every step
\* outside day, week, month and year, for every start and end, also when
\* start is later than end, and returns no list then.
C14_InvalidStepFails ==
    (op = "get_date_range" /\ arg.step \notin {"day", "week", "month", "year"})
        => (IsRaised(ret) /\ ret.raised = "ValueError")

\* The length of one step of a day or week range.
StepLength(step) == IF step = "day" THEN Day ELSE Week

\* C15: for step 'day' (or 'week') and start <= end, get_date_range returns
\* one more element than there are whole days (weeks) from start to end,
\* the first is start, neighbours are exactly one day (week) apart, and the
\* last is the instant of end when end - start is a whole number of steps.
C15_DayWeekRange ==
    (op = "get_date_range" /\ arg.step \in {"day", "week"}
                           /\ arg.start.t <= arg.end.t) =>
        LET unit == StepLength(arg.step)
            n == (arg.end.t - arg.start.t) \div unit
        IN  /\ ~IsRaised(ret)
            /\ Len(ret.value) = n + 1
            /\ ret.value[1] = arg.start
            /\ \A i \in 1..n : ret.value[i + 1].t - ret.value[i].t = unit
            /\ ((arg.end.t - arg.start.t) % unit = 0
                    => ret.value[Len(ret.value)].t = arg.end.t)

\* A week range over exactly two weeks has returned three elements, the
\* last at the instant of end.
C15_Witness ==
    /\ op = "get_date_range"
    /\ arg.step = "week"
    /\ arg.end.t = arg.start.t + 2 * Week
    /\ ~IsRaised(ret)
    /\ Len(ret.value) = 3
    /\ ret.value[3].t = arg.end.t

\* The weekday (0 = Monday) of a value on the wall clock of its zone.
WeekdayOf(x) == ((x.t + OffsetOf(x.tz)) \div Day) % 7

\* The days from a weekday to the first Monday-to-Friday day after it.
DaysToBusiness(wd) == CASE wd \in {0, 1, 2, 3, 6} -> 1 [] wd = 5 -> 2 [] wd = 4 -> 3

\* C16: next_business_day returns the earliest Monday-to-Friday day after
\* date at the same time of day: 1 day on from Monday to Thursday and from
\* Sunday, 2 from Saturday, 3 from Friday, so after at most 3 advances.
C16_NextBusinessDay ==
    op = "next_business_day" =>
        LET k == DaysToBusiness(WeekdayOf(arg.date))
        IN  /\ ret = [t |-> arg.date.t + k * Day, tz |-> arg.date.tz]
            /\ k <= 3
            /\ WeekdayOf(ret) < 5
            /\ \A j \in 1..(k - 1) :
                   WeekdayOf([t |-> arg.date.t + j * Day, tz |-> arg.date.tz]) >= 5

\* next_business_day was called with a Friday of the Tokyo calendar (still
\* Thursday in UTC) and has returned the Monday three days on.
C16_Witness ==
    /\ op = "next_business_day"
    /\ arg.date.tz = "Asia/Tokyo"
    /\ WeekdayOf(arg.date) = 4
    /\ (arg.date.t \div Day) % 7 = 3
    /\ ret.t = arg.date.t + 3 * Day

\* C17: get_quarter_dates fails with the invalid-quarter error for every
\* quarter outside 1..4; for a valid quarter q the start is midnight of the
\* first day of month 3(q-1)+1 of the year and the end lies on the last day
\* of month 3q of the same year.
C17_QuarterDates ==
    op = "get_quarter_dates" =>
        IF arg.quarter \notin 1..4
        THEN IsRaised(ret) /\ ret.raised = "ValueError"
        ELSE LET q == arg.quarter
                 endDay == ret.value[2].t \div Day
             IN  /\ ~IsRaised(ret)
                 /\ ret.value[1].t = DayNumber(arg.year, 3 * (q - 1) + 1, 1) * Day
                 /\ (q = 1 => ret.value[1].t = YearStart(arg.year) * Day)
                 /\ YearOfDay(endDay) = arg.year
                 /\ MonthOfDay(endDay) = 3 * q
                 /\ DayOfMonth(endDay) = DaysInMonth(arg.year, 3 * q)
                 /\ ret.value[1].t <= ret.value[2].t

\* The fourth quarter of 2024 has been returned: it ends on December 31st,
\* before the first instant of 2025.
C17_Witness ==
    /\ op = "get_quarter_dates"
    /\ arg = [year |-> 2024, quarter |-> 4]
    /\ ~IsRaised(ret)
    /\ DayOfMonth(ret.value[2].t \div Day) = 31
    /\ ret.value[2].t = YearStart(2025) * Day - 1

\* The calendar day (year, month, day) of an instant in a zone.
DateOf(t, tz) ==
    LET n == (t + OffsetOf(tz)) \div Day
    IN  <<YearOfDay(n), MonthOfDay(n), DayOfMonth(n)>>

\* C18: age_from_birthdate fails with the future-birthdate error exactly
\* when birthdate > now; otherwise it returns now.year - birthdate.year,
\* less 1 exactly when (now.month, now.day) < (birthdate.month,
\* birthdate.day): nothing is taken off on the birthday itself.
C18_Age ==
    op = "age_from_birthdate" =>
        LET n == DateOf(now, "UTC")
            b == DateOf(arg.birthdate.t, arg.birthdate.tz)
            before == n[2] < b[2] \/ (n[2] = b[2] /\ n[3] < b[3])
        IN  IF arg.birthdate.t > now
            THEN IsRaised(ret) /\ ret.raised = "ValueError"
            ELSE /\ ~IsRaised(ret)
                 /\ ret.value = (n[1] - b[1]) - (IF before THEN 1 ELSE 0)

\* age_from_birthdate was called on the fourth birthday (a leap day) and
\* has returned the plain year difference.
C18_Witness ==
    /\ op = "age_from_birthdate"
    /\ DateOf(now, "UTC") = <<2024, 2, 29>>
    /\ DateOf(arg.birthdate.t, arg.birthdate.tz) = <<2020, 2, 29>>
    /\ ~IsRaised(ret)
    /\ ret.value = 4

\* The day number of the calendar day of a value in its own zone.
DayNumberOf(x) == (x.t + OffsetOf(x.tz)) \div Day

Registered(ts, name) == \E i \in DOMAIN ts : ts[i].name = name

\* The pattern the registry stores under a registered name.
StoredPattern(ts, name) == ts[CHOOSE i \in DOMAIN ts : ts[i].name = name].pattern

\* C20: DateFormatter.format(dt, name) fails with the unknown-template
\* error exactly when name is not registered at the time of the call, a
\* failed format (like a successful one) leaves the registry unchanged, and
\* for a registered name the result is dt formatted with the pattern stored
\* under that name at the time of the call.
C20_Format ==
    [][ op' = "format" =>
          /\ templates' = templates
          /\ IF Registered(templates, arg'.template)
             THEN /\ ~IsRaised(ret')
                  /\ ret'.value =
                        ArrowFormat(arg'.dt, StoredPattern(templates, arg'.template))
             ELSE /\ IsRaised(ret')
                  /\ ret'.raised = "ValueError"
                  /\ ret'.message = <<"Unknown template: ", arg'.template>> ]_vars

\* format was called with the name 'short' after add_template had replaced
\* its pattern by the year alone, and has returned just the year.
C20_Witness ==
    /\ op = "format"
    /\ arg.template = "short"
    /\ StoredPattern(templates, "short") = <<"YYYY">>
    /\ ~IsRaised(ret)
    /\ Len(ret.value) = 1
    /\ ret.value[1].value = 2024

\* The names and patterns DateFormatter starts with.
SeededNames ==
    {"short", "long", "time", "datetime", "iso", "filename", "log", "display"}

SeededPattern(name) ==
    CASE name = "short" -> <<"YYYY", "-", "MM", "-", "DD">>
      [] name = "long" -> <<"MMMM", " ", "DD", ", ", "YYYY">>
      [] name = "time" -> <<"HH", ":", "mm", ":", "ss">>
      [] name \in {"datetime", "log"} ->
            <<"YYYY", "-", "MM", "-", "DD", " ", "HH", ":", "mm", ":", "ss">>
      [] name = "iso" ->
            <<"YYYY", "-", "MM", "-", "DD", "T", "HH", ":", "mm", ":", "ss", "ZZ">>
      [] name = "filename" -> <<"YYYY", "MM", "DD", "_", "HH", "mm", "ss">>
      [] name = "display" ->
            <<"MMMM", " ", "DD", ", ", "YYYY", " ", "[at]", " ", "h", ":", "mm",
              " ", "A">>

\* C21: after any sequence of add_template and format calls the registry
\* holds exactly one entry for each of the eight pre-seeded names and each
\* name ever added, every name maps to the pattern of its most recent
\* add_template (to its default if it was never added), so an add changes
\* no other entry, and list_templates returns exactly those names.
C21_Registry ==
    LET names == SeededNames \cup DOMAIN latest
    IN  /\ { templates[i].name : i \in DOMAIN templates } = names
        /\ Len(templates) = Cardinality(names)
        /\ \A i \in DOMAIN templates :
              templates[i].pattern =
                  IF templates[i].name \in DOMAIN latest
                  THEN latest[templates[i].name]
                  ELSE SeededPattern(templates[i].name)
        /\ (op = "list_templates" =>
                /\ { ret[i] : i \in DOMAIN ret } = names
                /\ Len(ret) = Cardinality(names))

\* list_templates has returned the eight seeded names and the added name
\* 'custom' after the default 'short' and 'custom' itself were overwritten.
C21_Witness ==
    /\ op = "list_templates"
    /\ Len(ret) = 9
    /\ DOMAIN latest = {"custom", "short"}
    /\ StoredPattern(templates, "short") = <<"HH", ":", "mm">>
    /\ StoredPattern(templates, "custom") = <<"YYYY">>
    /\ StoredPattern(templates, "long") = SeededPattern("long")

(* ----------------------- claims: timestamp tools ----------------------- *)

\* Eight digits, an underscore and six digits stand in s from position p.
StampAt(s, p) ==
    /\ p >= 1
    /\ p + 14 <= Len(s)
    /\ \A k \in (0..7) \cup (9..14) :
          s[p + k] \in {"0", "1", "2", "3", "4", "5", "6", "7", "8", "9"}
    /\ s[p + 8] = "_"

\* The number the w characters of s from position p spell.
RECURSIVE NumberAt(_, _, _)
NumberAt(s, p, w) ==
    IF w = 0 THEN 0
    ELSE NumberAt(s, p, w - 1) * 10
         + (CASE s[p + w - 1] = "0" -> 0 [] s[p + w - 1] = "1" -> 1
              [] s[p + w - 1] = "2" -> 2 [] s[p + w - 1] = "3" -> 3
              [] s[p + w - 1] = "4" -> 4 [] s[p + w - 1] = "5" -> 5
              [] s[p + w - 1] = "6" -> 6 [] s[p + w - 1] = "7" -> 7
              [] s[p + w - 1] = "8" -> 8 [] s[p + w - 1] = "9" -> 9)

\* The stamp at position p of s read as YYYYMMDD_HHmmss: a list of the one
\* UTC instant it names, empty when its fields name no date and time.
StampInstant(s, p) ==
    LET y == NumberAt(s, p, 4)
        m == NumberAt(s, p + 4, 2)
        d == NumberAt(s, p + 6, 2)
        h == NumberAt(s, p + 9, 2)
        mi == NumberAt(s, p + 11, 2)
        sec == NumberAt(s, p + 13, 2)
    IN  IF /\ y >= 1 /\ m >= 1 /\ m <= 12 /\ d >= 1 /\ d <= DaysInMonth(y, m)
           /\ h < 24 /\ mi < 60 /\ sec < 60
        THEN << [ t |-> (YearStart(y) + DaysBeforeMonth(y, m) + d - 1) * Day
                        + ((h * 60 + mi) * 60 + sec) * Second,
                  tz |-> "UTC" ] >>
        ELSE <<>>

\* C22: parse_timestamp_filename returns the instant the leftmost
\* occurrence of eight digits, an underscore and six digits encodes as
\* YYYYMMDD_HHmmss (nothing when its fields name no date and time),
\* whatever occurrences follow, and None when there is no occurrence.
C22_FirstStampWins ==
    op = "parse_timestamp_filename" =>
        LET s == arg.filename
            ps == { p \in DOMAIN s : StampAt(s, p) }
        IN  IF ps = {}
            THEN ret = <<>>
            ELSE ret = StampInstant(s, CHOOSE p \in ps : \A q \in ps : p <= q)

\* A name with the stamp of 2024-02-07 14:30:45 followed by the stamp of
\* 2025-01-01 was parsed and the first one's instant returned.
C22_Witness ==
    /\ op = "parse_timestamp_filename"
    /\ Cardinality({ p \in DOMAIN arg.filename : StampAt(arg.filename, p) }) = 2
    /\ StampAt(arg.filename, 5)
    /\ arg.filename[1] = "l"
    /\ ret = << [ t |-> (31 + 6) * Day + 14 * Hour + 30 * Minute + 45 * Second,
                  tz |-> "UTC" ] >>

\* C23: any two distinct calls of generate_unique_id return different
\* strings, also two calls with no clock advance between them.
C23_UniqueIds ==
    \A i \in DOMAIN ids : \A j \in DOMAIN ids : i # j => ids[i] # ids[j]

\* C27: timestamps round-trip in both units: datetime_to_timestamp of the
\* result of timestamp_to_datetime(ts, unit), with the same unit, is ts
\* (also for milliseconds that are no multiple of 1000 and for negative
\* values), and the milliseconds of a datetime are 1000 times its seconds.
C27_RoundTrip ==
    [][ /\ ( /\ op = "timestamp_to_datetime"
             /\ op' = "datetime_to_timestamp"
             /\ arg'.dt = ret
             /\ arg'.unit = arg.unit ) => ret' = arg.ts
        /\ ( /\ op = "datetime_to_timestamp"
             /\ op' = "datetime_to_timestamp"
             /\ arg.unit = "seconds"
             /\ arg'.unit = "milliseconds"
             /\ arg'.dt = arg.dt ) => ret' = 1000 * ret ]_vars

\* The instant now cut to whole seconds, in a list of one.
NowToTheSecond == << [t |-> now - (now % Second), tz |-> "UTC"] >>

\* C28 as stated: parsing the name generate_timestamped_filename(base, ext)
\* produces at now returns now truncated to whole seconds, whatever digits
\* and underscores the base name contains.
C28_AnyBaseName ==
    [][ ( /\ op = "generate_timestamped_filename"
          /\ op' = "parse_timestamp_filename"
          /\ arg'.filename = ret ) => ret' = NowToTheSecond ]_vars

\* C28: parsing the name generate_timestamped_filename(base, ext) produces
\* at now returns now truncated to whole seconds whenever no occurrence of
\* eight digits, an underscore and six digits starts in the base name or
\* the underscore put after it (so whenever the base name has no eight
\* digits in a row directly before an underscore or its own end).
C28_RoundTrip ==
    [][ ( /\ op = "generate_timestamped_filename"
          /\ op' = "parse_timestamp_filename"
          /\ arg'.filename = ret
          /\ \A p \in 1..(Len(arg.base_name) + 1) : ~StampAt(ret, p) )
            => ret' = NowToTheSecond ]_vars

\* The name made from the base 'v2_' and the extension 'gz' half a second
\* past 14:30:45 was parsed and that second's instant returned.
C28_Witness ==
    /\ op = "parse_timestamp_filename"
    /\ Len(arg.filename) = 3 + 1 + 15 + 3
    /\ SubSeq(arg.filename, 1, 4) = <<"v", "2", "_", "_">>
    /\ SubSeq(arg.filename, 20, 22) = <<".", "g", "z">>
    /\ now % Second # 0
    /\ ret = NowToTheSecond

(* --------------------- claims: date helpers, continued ----------------- *)

\* C24: get_date_range ends for every start, every end and every valid
\* step (the result has at most one element per day from start to end),
\* its result is strictly increasing and holds only instants from start to
\* end, so it is empty when start > end; a call repeating the arguments of
\* the call before returns the same sequence.
C24_RangeWithinBounds ==
    [][ (op' = "get_date_range" /\ arg'.step \in {"day", "week", "month", "year"}) =>
          /\ ~IsRaised(ret')
          /\ \A i \in DOMAIN ret'.value :
                /\ arg'.start.t <= ret'.value[i].t
                /\ ret'.value[i].t <= arg'.end.t
                /\ (i > 1 => ret'.value[i - 1].t < ret'.value[i].t)
          /\ (arg'.start.t > arg'.end.t => ret'.value = <<>>)
          /\ (arg'.start.t <= arg'.end.t =>
                 Len(ret'.value) <= ((arg'.end.t - arg'.start.t) \div Day) + 1)
          /\ ((op = "get_date_range" /\ arg = arg') => ret' = ret) ]_vars

\* get_date_range was called by month over sixty days and has returned
\* three instants, the last before end.
C24_Witness ==
    /\ op = "get_date_range"
    /\ arg.step = "month"
    /\ ~IsRaised(ret)
    /\ Len(ret.value) = 3
    /\ ret.value[3].t < arg.end.t

\* C29: for step 'month' (or 'year') the i-th element of get_date_range is
\* start shifted by i months (years) in one shift, counting from 0, also
\* when start is on day 29, 30 or 31.
C29_OneShiftPerElement ==
    (op = "get_date_range" /\ arg.step \in {"month", "year"}) =>
        /\ ~IsRaised(ret)
        /\ \A i \in DOMAIN ret.value :
              ret.value[i] = ShiftMonths(arg.start,
                                 (IF arg.step = "month" THEN 1 ELSE 12) * (i - 1))

\* C30: whenever age_from_birthdate returns a value it is not negative,
\* also for a birthdate tagged with a zone whose calendar date differs
\* from the UTC date.
C30_AgeNotNegative ==
    (op = "age_from_birthdate" /\ ~IsRaised(ret)) => ret.value >= 0

(* --------------------- claims: Reminder, continued --------------------- *)

\* C25: with the clock standing and no add in between, repeated check_due
\* calls come to return nothing after finitely many calls, whatever the
\* stored recurring and interval are.  check_due reads only the store and
\* the clock, so a call that returns a record and leaves the store as it
\* was is repeated by every later call; the claim therefore requires that
\* a check_due call that leaves the store unchanged returns nothing, and
\* that every returned record is inactive or has a later remind_at after
\* the call.
C25_ChecksDrain ==
    [][ op' = "check_due" =>
          /\ (reminders' = reminders => ret' = <<>>)
          /\ \A k \in DOMAIN ret' :
                \/ ~reminders'[ret'[k]].active
                \/ reminders'[ret'[k]].remind_at > reminders[ret'[k]].remind_at ]_vars

\* C26: a stored record is never removed, an inactive record stays
\* inactive, title, recurring, interval and created_at of a record never
\* change, and check_due leaves every record it does not return as it was.
C26_OnlyDeactivate ==
    [][ \A i \in DOMAIN reminders :
          /\ i \in DOMAIN reminders'
          /\ (~reminders[i].active => ~reminders'[i].active)
          /\ reminders'[i].title = reminders[i].title
          /\ reminders'[i].recurring = reminders[i].recurring
          /\ reminders'[i].interval = reminders[i].interval
          /\ reminders'[i].created_at = reminders[i].created_at
          /\ ((op' = "check_due" /\ \A k \in DOMAIN ret' : ret'[k] # i)
                  => reminders'[i] = reminders[i]) ]_vars

\* check_due has returned the second record alone, a recurring one it has
\* moved on and left active, while the first, fired before, is inactive.
C26_Witness ==
    /\ op = "check_due"
    /\ ret = <<2>>
    /\ Len(reminders) = 2
    /\ ~reminders[1].active
    /\ fired[1] = 1
    /\ reminders[2].active
    /\ reminders[2].recurring
    /\ reminders[2].remind_at > added[2].remind_at

====
